---------------------------- MODULE Spec2Model ----------------------------
(***************************************************************************)
(* A model of ubi's installer.rs: the single-file installer (ExeInstaller) *)
(* and the whole-archive installer (ArchiveInstaller).                     *)
(*                                                                         *)
(* Strings are sequences of one-character strings, so that prefix, suffix, *)
(* lower-casing and concatenation are computed, not assumed.  Paths are    *)
(* records [abs, comps]: comps is the sequence of the path's components.   *)
(***************************************************************************)
EXTENDS Integers, Sequences, FiniteSets, TLC

VARIABLES
    \* ExeInstaller fields and build configuration
    install_path, exe_file_stem, is_windows, unix_family,
    \* the downloaded asset: its file name and (for tar and zip) its entries
    archive_path, entries,
    \* control state of one install call
    pc, idx, real_exe, result,
    \* the destination side of the filesystem (single-file install)
    dirs, files, fs_log,
    \* ArchiveInstaller: install root, its tree, and the flattening loop
    install_root, root_exists, tree, top_level_path, pending

vars == <<install_path, exe_file_stem, is_windows, unix_family, archive_path,
          entries, pc, idx, real_exe, result, dirs, files, fs_log,
          install_root, root_exists, tree, top_level_path, pending>>

exeVars == <<install_path, exe_file_stem, is_windows, unix_family, idx,
             real_exe, dirs, files, fs_log>>

archVars == <<install_root, root_exists, tree, top_level_path, pending>>

----------------------------------------------------------------------------
(* Bounds of the model *)

\* longest archive (number of entries) of a single-file install
MaxEntries == 2
\* longest archive (number of entries) of a whole-archive install
MaxTreeEntries == 3

----------------------------------------------------------------------------
(* Strings *)

UpperChars == <<"A","B","C","D","E","F","G","H","I","J","K","L","M",
                "N","O","P","Q","R","S","T","U","V","W","X","Y","Z">>
LowerChars == <<"a","b","c","d","e","f","g","h","i","j","k","l","m",
                "n","o","p","q","r","s","t","u","v","w","x","y","z">>

ToLowerChar(c) ==
    IF \E k \in 1..Len(UpperChars) : UpperChars[k] = c
    THEN LowerChars[CHOOSE k \in 1..Len(UpperChars) : UpperChars[k] = c]
    ELSE c

\* str::to_lowercase
ToLowercase(s) == [k \in 1..Len(s) |-> ToLowerChar(s[k])]

\* str::starts_with
StartsWith(s, p) == Len(p) <= Len(s) /\ SubSeq(s, 1, Len(p)) = p

\* str::ends_with
EndsWith(s, x) ==
    Len(x) <= Len(s) /\ SubSeq(s, Len(s) - Len(x) + 1, Len(s)) = x

Star == <<"*">>
Dot == <<".">>

----------------------------------------------------------------------------
(* crate::extension::Extension.  The variants are those the exhaustive     *)
(* match of extract_executable names; their suffix strings and the two     *)
(* predicates are taken from the specification's classifier table.         *)

Extension == {"AppImage", "Bat", "Bz", "Bz2", "Exe", "Gz", "Pyz", "Tar",
              "TarBz", "TarBz2", "TarGz", "TarXz", "Tbz", "Tgz", "Txz",
              "Xz", "Zip"}

\* Extension::iter() order (declaration order)
ExtensionIter == <<"AppImage", "Bat", "Bz", "Bz2", "Exe", "Gz", "Pyz",
                   "Tar", "TarBz", "TarBz2", "TarGz", "TarXz", "Tbz", "Tgz",
                   "Txz", "Xz", "Zip">>

\* Extension::extension
ExtStr(e) ==
    CASE e = "AppImage" -> <<".","A","p","p","I","m","a","g","e">>
      [] e = "Bat"      -> <<".","b","a","t">>
      [] e = "Bz"       -> <<".","b","z">>
      [] e = "Bz2"      -> <<".","b","z","2">>
      [] e = "Exe"      -> <<".","e","x","e">>
      [] e = "Gz"       -> <<".","g","z">>
      [] e = "Pyz"      -> <<".","p","y","z">>
      [] e = "Tar"      -> <<".","t","a","r">>
      [] e = "TarBz"    -> <<".","t","a","r",".","b","z">>
      [] e = "TarBz2"   -> <<".","t","a","r",".","b","z","2">>
      [] e = "TarGz"    -> <<".","t","a","r",".","g","z">>
      [] e = "TarXz"    -> <<".","t","a","r",".","x","z">>
      [] e = "Tbz"      -> <<".","t","b","z">>
      [] e = "Tgz"      -> <<".","t","g","z">>
      [] e = "Txz"      -> <<".","t","x","z">>
      [] e = "Xz"       -> <<".","x","z">>
      [] e = "Zip"      -> <<".","z","i","p">>

\* Extension::extension_without_dot
ExtensionWithoutDot(e) == Tail(ExtStr(e))

\* Extension::is_windows_only
IsWindowsOnly(e) == e \in {"Bat", "Exe"}

\* Extension::should_preserve_extension_on_install
ShouldPreserveExtensionOnInstall(e) == e \in {"AppImage", "Bat", "Exe", "Pyz"}

None == <<>>
Some(x) == <<x>>
IsSome(o) == o # None
Unwrap(o) == o[1]

\* index of the last "." of a file name that is not its first character, or 0
LastDot(name) ==
    LET ds == {k \in 2..Len(name) : name[k] = "."}
    IN  IF ds = {} THEN 0 ELSE CHOOSE k \in ds : \A j \in ds : j <= k

\* Path::file_name: the last component, if any
FileName(p) == IF Len(p.comps) = 0 THEN None ELSE Some(p.comps[Len(p.comps)])

\* Path::extension is Some
HasExtension(p) == IsSome(FileName(p)) /\ LastDot(Unwrap(FileName(p))) # 0

\* Extension::from_path: no extension gives None; otherwise the longest known
\* suffix the file name ends with; an unknown suffix gives None
FromPath(p) ==
    IF ~HasExtension(p) THEN None
    ELSE LET name == Unwrap(FileName(p))
             hits == {e \in Extension : EndsWith(name, ExtStr(e))}
         IN  IF hits = {} THEN None
             ELSE Some(CHOOSE e \in hits :
                         \A f \in hits : Len(ExtStr(f)) <= Len(ExtStr(e)))

\* mutant: a bare gzip stream is taken for a tarball
TarFamily_WithBareGzip ==
    {"Tar", "TarBz", "TarBz2", "TarGz", "TarXz", "Tbz", "Tgz", "Txz", "Gz"}

\* mutant: the bare compressors are taken for compressed tarballs
TarFamily_WithBareCompressors ==
    {"Tar", "TarBz", "TarBz2", "TarGz", "TarXz", "Tbz", "Tgz", "Txz",
     "Bz", "Bz2", "Gz", "Xz"}

TarFamily == {"Tar", "TarBz", "TarBz2", "TarGz", "TarXz", "Tbz", "Tgz", "Txz"}

----------------------------------------------------------------------------
(* Paths *)

Path(abs, comps) == [abs |-> abs, comps |-> comps]

\* Path::parent: None for the root and for the empty path
Parent(p) ==
    IF Len(p.comps) = 0 THEN None
    ELSE Some(Path(p.abs, SubSeq(p.comps, 1, Len(p.comps) - 1)))

\* Path::join of one component
Join(p, name) == Path(p.abs, Append(p.comps, name))

\* PathBuf::set_extension: the file name's stem, a dot and the new extension;
\* a path with no file name is left alone
SetExtension(p, ext) ==
    IF FileName(p) = None THEN p
    ELSE LET name == Unwrap(FileName(p))
             d == LastDot(name)
             stem == IF d = 0 THEN name ELSE SubSeq(name, 1, d - 1)
         IN  Path(p.abs, SubSeq(p.comps, 1, Len(p.comps) - 1)
                            \o <<stem \o Dot \o ext>>)

\* the path and every ancestor of it that has a component
Ancestors(p) == {Path(p.abs, SubSeq(p.comps, 1, k)) : k \in 1..Len(p.comps)}

----------------------------------------------------------------------------
(* Names used by the bounded inputs *)

n_ubi == <<"u","b","i">>
n_Ubi == <<"U","b","i">>
n_ubi_x == <<"u","b","i","-","x">>
n_ubi_exe == <<"u","b","i",".","e","x","e">>
n_Ubi_exe == <<"U","b","i",".","e","x","e">>
n_ubi_x_exe == <<"u","b","i","-","x",".","e","x","e">>
n_bin == <<"b","i","n">>
n_ubi_sh == <<"u","b","i",".","s","h">>

a_tar_gz == <<"a",".","t","a","r",".","g","z">>
a_tar == <<"a",".","t","a","r">>
a_zip == <<"a",".","z","i","p">>
a_gz == <<"a",".","g","z">>
a_bz == <<"a",".","b","z">>
a_bz2 == <<"a",".","b","z","2">>
a_xz == <<"a",".","x","z">>
a_exe == <<"a",".","e","x","e">>
a_pyz == <<"a",".","p","y","z">>
a_plain == <<"a">>
a_AppImage == <<"a",".","A","p","p","I","m","a","g","e">>
a_bat == <<"a",".","b","a","t">>
a_dat == <<"a",".","d","a","t">>

Rel(comps) == Path(FALSE, comps)

\* rw-r--r-- and rwxr-xr-x
Modes == {420, 493}

Entry(path, is_file, mode) == [path |-> path, is_file |-> is_file, mode |-> mode]

\* paths of the file entries: the deeper ones carry the shorter names
FilePaths == {Rel(<<n_bin, n_ubi>>), Rel(<<n_bin, n_ubi_x>>), Rel(<<n_ubi_exe>>),
              Rel(<<n_Ubi_exe>>), Rel(<<n_bin, n_ubi_x_exe>>)}

\* a directory whose base name is a stem
DirPaths == {Rel(<<n_ubi>>)}

\* file paths whose base name is a stem followed by a Windows extension and
\* nothing else
ExeNamedPaths == {Rel(<<n_ubi_exe>>), Rel(<<n_Ubi_exe>>)}

\* every mode for the names where the mode can decide the match, the default
\* file mode for the others
TarPool == {Entry(p, TRUE, m) : p \in FilePaths \ ExeNamedPaths, m \in Modes}
             \cup {Entry(p, TRUE, 420) : p \in ExeNamedPaths}
             \cup {Entry(p, FALSE, 493) : p \in DirPaths}

\* a zip entry carries no Unix mode in this model
ZipPool == {Entry(p, TRUE, 0) : p \in FilePaths}
             \cup {Entry(p, FALSE, 0) : p \in DirPaths}

SeqsUpTo(S, n) == UNION {[1..k -> S] : k \in 0..n}

Stems == {n_ubi, n_Ubi}

\* destinations: in a directory, with a caller-supplied extension, a bare file
\* name, and the root (which has no parent)
InstallPaths == {Rel(<<n_bin, n_ubi>>), Rel(<<n_bin, n_ubi_sh>>), Rel(<<n_ubi>>),
                 Path(TRUE, <<>>)}

Asset(name, ents) == [name |-> name, ents |-> ents]

ExeAssets ==
    {Asset(a_tar_gz, es) : es \in SeqsUpTo(TarPool, MaxEntries)}
      \cup {Asset(a_zip, es) : es \in SeqsUpTo(ZipPool, MaxEntries)}
      \cup {Asset(n, <<>>) : n \in {a_gz, a_bz, a_bz2, a_xz, a_exe, a_pyz, a_plain}}

----------------------------------------------------------------------------
(* ExeInstaller: the entry matcher *)

\* ExeInstaller::new: the Windows-only extensions, or none
Extensions(windows) ==
    IF windows
    THEN LET w == SelectSeq(ExtensionIter, IsWindowsOnly)
         IN  [k \in 1..Len(w) |-> ExtStr(w[k])]
    ELSE <<>>

ExeInstallerNew(path, exe, windows) ==
    [install_path |-> path, exe_file_stem |-> exe, is_windows |-> windows,
     extensions |-> Extensions(windows)]

self == ExeInstallerNew(install_path, exe_file_stem, is_windows)

Range(s) == {s[k] : k \in 1..Len(s)}

ArchiveMemberIsExactMatch(this, file_name) ==
    IF this.extensions = <<>>
    THEN file_name = this.exe_file_stem
    ELSE \E ext \in Range(this.extensions) :
            ToLowercase(this.exe_file_stem) \o ext = file_name

ArchiveMemberIsPartialMatch(this, file_name) ==
    IF ~StartsWith(file_name, this.exe_file_stem) THEN FALSE
    ELSE IF this.extensions = <<>> THEN TRUE
    ELSE \E ext \in Range(this.extensions) :
            EndsWith(ToLowercase(file_name), ext)

RECURSIVE BitAnd(_, _)
BitAnd(a, b) ==
    IF a = 0 \/ b = 0 THEN 0
    ELSE (a % 2) * (b % 2) + 2 * BitAnd(a \div 2, b \div 2)

\* 0o111
ExecBits == 73

\* mutant: the stored mode is not looked at
TarPartialIsEligible_IgnoresMode(this, entry) == TRUE

\* the tar eligibility test of a partial match
TarPartialIsEligible(this, entry) ==
    this.is_windows \/ BitAnd(entry.mode, ExecBits) # 0

\* the loop of best_match_from_tarball from entry k on (k counts from 1, the
\* returned index from 0 as enumerate does)
RECURSIVE TarScan(_, _, _, _)
TarScan(this, ents, k, possible_matches) ==
    IF k > Len(ents)
    THEN IF possible_matches = <<>> THEN None ELSE Some(Head(possible_matches))
    ELSE LET entry == ents[k]
             fname == FileName(entry.path)
         IN  IF ~entry.is_file \/ fname = None
             THEN TarScan(this, ents, k + 1, possible_matches)
             ELSE IF ArchiveMemberIsExactMatch(this, Unwrap(fname))
             THEN Some(k - 1)
             ELSE IF ArchiveMemberIsPartialMatch(this, Unwrap(fname))
                     /\ TarPartialIsEligible(this, entry)
             THEN TarScan(this, ents, k + 1, Append(possible_matches, k - 1))
             ELSE TarScan(this, ents, k + 1, possible_matches)

BestMatchFromTarball(this, ents) == TarScan(this, ents, 1, <<>>)

\* the loop of best_match_from_zip_archive: an exact match is pushed and the
\* loop left; the result is the first element pushed
RECURSIVE ZipScan(_, _, _, _)
ZipScan(this, ents, k, possible_matches) ==
    IF k > Len(ents) THEN possible_matches
    ELSE LET zf == ents[k]
             fname == FileName(zf.path)
         IN  IF ~zf.is_file \/ fname = None
             THEN ZipScan(this, ents, k + 1, possible_matches)
             ELSE IF ArchiveMemberIsExactMatch(this, Unwrap(fname))
             THEN Append(possible_matches, k - 1)
             ELSE IF ArchiveMemberIsPartialMatch(this, Unwrap(fname))
             THEN ZipScan(this, ents, k + 1, Append(possible_matches, k - 1))
             ELSE ZipScan(this, ents, k + 1, possible_matches)

\* mutant: the last element pushed is returned, not the first
BestMatchFromZipArchive_Last(this, ents) ==
    LET possible_matches == ZipScan(this, ents, 1, <<>>)
    IN  IF possible_matches = <<>> THEN None
        ELSE Some(possible_matches[Len(possible_matches)])

BestMatchFromZipArchive(this, ents) ==
    LET possible_matches == ZipScan(this, ents, 1, <<>>)
    IN  IF possible_matches = <<>> THEN None ELSE Some(Head(possible_matches))

\* mutant: the Windows extensions are left out of the patterns
ExpectNames_StemOnly(this) == <<this.exe_file_stem \o Star>>

\* could_not_find_archive_matches_error: the expected name patterns
ExpectNames(this) ==
    IF this.extensions = <<>>
    THEN <<this.exe_file_stem \o Star>>
    ELSE [k \in 1..Len(this.extensions) |->
            this.exe_file_stem \o Star \o this.extensions[k]]

----------------------------------------------------------------------------
(* Results of an install call *)

Pending == [kind |-> "pending", error |-> "", detail |-> <<>>]
Ok == [kind |-> "ok", error |-> "", detail |-> <<>>]
Err(error, detail) == [kind |-> "err", error |-> error, detail |-> detail]
\* the process aborts instead of returning
Panic(detail) == [kind |-> "panic", error |-> "", detail |-> detail]

----------------------------------------------------------------------------
(* The destination side of the filesystem *)

\* mode of a file made by File::create or fs::copy (rw-r--r--)
DefaultFileMode == 420
\* Permissions::from_mode(0o755)
ExecutableMode == 493

Content(kind, index) == [kind |-> kind, index |-> index]

FileRec(path, content, mode) == [path |-> path, content |-> content, mode |-> mode]

LogOp(op, path) == [op |-> op, path |-> path]

\* a file written at path, replacing what was there
WithFile(fs, path, content, mode) ==
    {f \in fs : f.path # path} \cup {FileRec(path, content, mode)}

\* mutant: the file's mode is left as it was
WithMode_Unchanged(fs, path, mode) == fs

\* set_permissions(path, mode)
WithMode(fs, path, mode) ==
    {IF f.path = path THEN [f EXCEPT !.mode = mode] ELSE f : f \in fs}

Exists(fs, path) == \E f \in fs : f.path = path

\* mutant: a destination that has an extension of its own keeps it
PreservedInstallPath_KeepsCallerExtension(this, source) ==
    LET ext == FromPath(source)
    IN  IF IsSome(ext) /\ ShouldPreserveExtensionOnInstall(Unwrap(ext))
           /\ ~HasExtension(this.install_path)
        THEN SetExtension(this.install_path, ExtensionWithoutDot(Unwrap(ext)))
        ELSE this.install_path

\* the install path for a source name: its extension replaced when the
\* source's extension is one that is preserved on install
PreservedInstallPath(this, source) ==
    LET ext == FromPath(source)
    IN  IF IsSome(ext) /\ ShouldPreserveExtensionOnInstall(Unwrap(ext))
        THEN SetExtension(this.install_path, ExtensionWithoutDot(Unwrap(ext)))
        ELSE this.install_path

\* mutant: an install path without a parent is used as its own directory
InstallDir_FallsBackToPath(this) ==
    IF Parent(this.install_path) = None THEN Some(this.install_path)
    ELSE Parent(this.install_path)

\* create_install_dir: the parent of install_path, None when it has none
InstallDir(this) == Parent(this.install_path)

IsFileEntry(e) == e.is_file

\* mutant: the second walk counts the file entries only
SecondPassEntry_CountsFilesOnly(ents, i) ==
    LET fs == SelectSeq(ents, IsFileEntry)
    IN  IF i < Len(fs) THEN Some(fs[i + 1]) ELSE None

\* the second walk of the tarball: the entry whose enumerate index is i
SecondPassEntry(ents, i) == IF i < Len(ents) THEN Some(ents[i + 1]) ELSE None

Format == FromPath(archive_path)

Finish(res) == /\ pc' = "done"
               /\ result' = res

----------------------------------------------------------------------------
(* ExeInstaller::install *)

ExeUnchanged == UNCHANGED <<install_path, exe_file_stem, is_windows, unix_family,
                            archive_path, entries, archVars>>

\* extract_executable_from_tarball, first pass: best_match_from_tarball
TarFirstPass ==
    /\ pc = "start"
    /\ IsSome(Format) /\ Unwrap(Format) \in TarFamily
    /\ \E open_ok \in BOOLEAN :
         IF open_ok
         THEN /\ idx' = BestMatchFromTarball(self, entries)
              /\ pc' = "tar_matched"
              /\ UNCHANGED result
         ELSE /\ Finish(Err("Io", <<"open">>))
              /\ UNCHANGED idx
    /\ UNCHANGED <<real_exe, dirs, files, fs_log>>
    /\ ExeUnchanged

\* extract_executable_from_tarball, second pass: a fresh reader, the walk to
\* the index, create_install_dir, unpack
TarSecondPass ==
    /\ pc = "tar_matched"
    /\ IF idx = None \/ SecondPassEntry(entries, Unwrap(idx)) = None
       THEN /\ Finish(Err("NoMatchingEntry", ExpectNames(self)))
            /\ UNCHANGED <<real_exe, dirs, files, fs_log>>
       ELSE \E fault \in {"none", "open", "create_dir", "unpack"} :
              LET entry == Unwrap(SecondPassEntry(entries, Unwrap(idx)))
                  path == PreservedInstallPath(self, entry.path)
                  dir == InstallDir(self)
              IN  IF fault = "open"
                  THEN /\ Finish(Err("Io", <<"open">>))
                       /\ UNCHANGED <<real_exe, dirs, files, fs_log>>
                  ELSE IF dir = None
                  THEN /\ Finish(Err("InstallDirectory", <<>>))
                       /\ UNCHANGED <<real_exe, dirs, files, fs_log>>
                  ELSE IF fault = "create_dir"
                  THEN /\ Finish(Err("Io", <<"create_dir_all">>))
                       /\ UNCHANGED <<real_exe, dirs, files, fs_log>>
                  ELSE IF fault = "unpack"
                  THEN \* entry.unpack(..).unwrap()
                       /\ Finish(Panic(<<"unpack">>))
                       /\ dirs' = dirs \cup Ancestors(Unwrap(dir))
                       /\ fs_log' = Append(fs_log, LogOp("create_dir_all", Unwrap(dir)))
                       /\ UNCHANGED <<real_exe, files>>
                  ELSE /\ dirs' = dirs \cup Ancestors(Unwrap(dir))
                       /\ files' = WithFile(files, path,
                                            Content("entry", Unwrap(idx)), entry.mode)
                       /\ fs_log' = fs_log \o <<LogOp("create_dir_all", Unwrap(dir)),
                                                LogOp("write", path)>>
                       /\ real_exe' = Some(path)
                       /\ pc' = "extracted"
                       /\ UNCHANGED result
    /\ UNCHANGED idx
    /\ ExeUnchanged

\* extract_executable_from_zip
ExtractExecutableFromZip ==
    /\ pc = "start"
    /\ Format = Some("Zip")
    /\ \E fault \in {"none", "open", "read", "create_dir", "write"} :
         LET zf == BestMatchFromZipArchive(self, entries)
             dir == InstallDir(self)
         IN  IF fault = "open"
             THEN /\ Finish(Err("Io", <<"open">>))
                  /\ UNCHANGED <<idx, real_exe, dirs, files, fs_log>>
             ELSE IF zf = None
             THEN /\ Finish(Err("NoMatchingEntry", ExpectNames(self)))
                  /\ UNCHANGED <<idx, real_exe, dirs, files, fs_log>>
             ELSE IF fault = "read"
             THEN /\ Finish(Err("Io", <<"read">>))
                  /\ idx' = zf
                  /\ UNCHANGED <<real_exe, dirs, files, fs_log>>
             ELSE IF dir = None
             THEN /\ Finish(Err("InstallDirectory", <<>>))
                  /\ idx' = zf
                  /\ UNCHANGED <<real_exe, dirs, files, fs_log>>
             ELSE IF fault = "create_dir"
             THEN /\ Finish(Err("Io", <<"create_dir_all">>))
                  /\ idx' = zf
                  /\ UNCHANGED <<real_exe, dirs, files, fs_log>>
             ELSE LET path == PreservedInstallPath(
                                 self, entries[Unwrap(zf) + 1].path)
                  IN  /\ idx' = zf
                      /\ dirs' = dirs \cup Ancestors(Unwrap(dir))
                      /\ IF fault = "write"
                         THEN /\ Finish(Err("Io", <<"write">>))
                              /\ fs_log' = Append(fs_log,
                                     LogOp("create_dir_all", Unwrap(dir)))
                              /\ UNCHANGED <<real_exe, files>>
                         ELSE /\ files' = WithFile(files, path,
                                     Content("entry", Unwrap(zf)), DefaultFileMode)
                              /\ fs_log' = fs_log \o
                                     <<LogOp("create_dir_all", Unwrap(dir)),
                                       LogOp("write", path)>>
                              /\ real_exe' = Some(path)
                              /\ pc' = "extracted"
                              /\ UNCHANGED result
    /\ ExeUnchanged

\* write_to_install_path, reached from unbzip, ungzip and unxz
WriteToInstallPath ==
    \E fault \in {"none", "open", "create_dir", "write"} :
      LET dir == InstallDir(self)
      IN  IF fault = "open"
          THEN /\ Finish(Err("Io", <<"open">>))
               /\ UNCHANGED <<real_exe, dirs, files, fs_log>>
          ELSE IF dir = None
          THEN /\ Finish(Err("InstallDirectory", <<>>))
               /\ UNCHANGED <<real_exe, dirs, files, fs_log>>
          ELSE IF fault = "create_dir"
          THEN /\ Finish(Err("Io", <<"create_dir_all">>))
               /\ UNCHANGED <<real_exe, dirs, files, fs_log>>
          ELSE /\ dirs' = dirs \cup Ancestors(Unwrap(dir))
               /\ IF fault = "write"
                  THEN /\ Finish(Err("Io", <<"write">>))
                       /\ fs_log' = Append(fs_log, LogOp("create_dir_all", Unwrap(dir)))
                       /\ UNCHANGED <<real_exe, files>>
                  ELSE /\ files' = WithFile(files, self.install_path,
                                            Content("stream", 0), DefaultFileMode)
                       /\ fs_log' = fs_log \o
                              <<LogOp("create_dir_all", Unwrap(dir)),
                                LogOp("write", self.install_path)>>
                       /\ real_exe' = None
                       /\ pc' = "extracted"
                       /\ UNCHANGED result

Unbzip ==
    /\ pc = "start"
    /\ IsSome(Format) /\ Unwrap(Format) \in {"Bz", "Bz2"}
    /\ WriteToInstallPath
    /\ UNCHANGED idx
    /\ ExeUnchanged

Ungzip ==
    /\ pc = "start"
    /\ Format = Some("Gz")
    /\ WriteToInstallPath
    /\ UNCHANGED idx
    /\ ExeUnchanged

Unxz ==
    /\ pc = "start"
    /\ Format = Some("Xz")
    /\ WriteToInstallPath
    /\ UNCHANGED idx
    /\ ExeUnchanged

\* copy_executable: create_install_dir comes first
CopyExecutable ==
    /\ pc = "start"
    /\ \/ Format = None
       \/ IsSome(Format) /\ Unwrap(Format) \in {"AppImage", "Bat", "Exe", "Pyz"}
    /\ \E fault \in {"none", "create_dir", "copy"} :
         LET dir == InstallDir(self)
             path == PreservedInstallPath(self, archive_path)
         IN  IF dir = None
             THEN /\ Finish(Err("InstallDirectory", <<>>))
                  /\ UNCHANGED <<real_exe, dirs, files, fs_log>>
             ELSE IF fault = "create_dir"
             THEN /\ Finish(Err("Io", <<"create_dir_all">>))
                  /\ UNCHANGED <<real_exe, dirs, files, fs_log>>
             ELSE /\ dirs' = dirs \cup Ancestors(Unwrap(dir))
                  /\ IF fault = "copy"
                     THEN /\ Finish(Err("Io", <<"copy">>))
                          /\ fs_log' = Append(fs_log,
                                 LogOp("create_dir_all", Unwrap(dir)))
                          /\ UNCHANGED <<real_exe, files>>
                     ELSE /\ files' = WithFile(files, path,
                                 Content("copy", 0), DefaultFileMode)
                          /\ fs_log' = fs_log \o
                                 <<LogOp("create_dir_all", Unwrap(dir)),
                                   LogOp("write", path)>>
                          /\ real_exe' = Some(path)
                          /\ pc' = "extracted"
                          /\ UNCHANGED result
    /\ UNCHANGED idx
    /\ ExeUnchanged

\* the path install hands to chmod_executable
RealExe(this, exe) == IF exe = None THEN this.install_path ELSE Unwrap(exe)

\* the tail of ExeInstaller::install: chmod_executable, a no-op on a build
\* for the windows family
ChmodExecutable ==
    /\ pc = "extracted"
    /\ LET exe == RealExe(self, real_exe)
       IN  IF ~unix_family
           THEN /\ Finish(Ok)
                /\ UNCHANGED <<files, fs_log>>
           ELSE \E chmod_ok \in BOOLEAN :
                  IF chmod_ok /\ Exists(files, exe)
                  THEN /\ files' = WithMode(files, exe, ExecutableMode)
                       /\ fs_log' = Append(fs_log, LogOp("chmod", exe))
                       /\ Finish(Ok)
                  ELSE /\ Finish(Err("Io", <<"set_permissions">>))
                       /\ UNCHANGED <<files, fs_log>>
    /\ UNCHANGED <<idx, real_exe, dirs>>
    /\ ExeUnchanged

ExeInit ==
    /\ install_path \in InstallPaths
    /\ exe_file_stem \in Stems
    /\ is_windows \in BOOLEAN
    /\ unix_family \in BOOLEAN
    /\ \E a \in ExeAssets :
         /\ archive_path = Rel(<<a.name>>)
         /\ entries = a.ents
    /\ pc = "start"
    /\ idx = None
    /\ real_exe = None
    /\ result = Pending
    /\ dirs = {}
    /\ files = {}
    /\ fs_log = <<>>
    /\ install_root = Rel(<<>>)
    /\ root_exists = FALSE
    /\ tree = {}
    /\ top_level_path = None
    /\ pending = {}

Init == ExeInit

Next ==
    \/ TarFirstPass
    \/ TarSecondPass
    \/ ExtractExecutableFromZip
    \/ Unbzip
    \/ Ungzip
    \/ Unxz
    \/ CopyExecutable
    \/ ChmodExecutable

Spec == Init /\ [][Next]_vars

----------------------------------------------------------------------------
(* Vocabulary of the properties of the entry matcher *)

IsTar == IsSome(Format) /\ Unwrap(Format) \in TarFamily
IsZip == Format = Some("Zip")

\* the asset could be opened and the matcher has run over its entries
MatcherRan ==
    /\ pc # "start"
    /\ result # Err("Io", <<"open">>)
    /\ IsTar \/ IsZip

BaseName(k) == Unwrap(FileName(entries[k].path))

\* entry k (counted from 1) is a file entry the code classifies as exact
ExactAt(k) == /\ entries[k].is_file
              /\ ArchiveMemberIsExactMatch(self, BaseName(k))

PartialAt(k) == /\ entries[k].is_file
                /\ ArchiveMemberIsPartialMatch(self, BaseName(k))

\* one of the bits 0o100, 0o010, 0o001 is set
HasExecutableBit(mode) ==
    \/ (mode \div 64) % 2 = 1
    \/ (mode \div 8) % 2 = 1
    \/ mode % 2 = 1

\* a partial match that may be selected: in a tarball it needs an executable
\* bit unless the platform flag is Windows
EligiblePartialAt(k) ==
    /\ PartialAt(k)
    /\ IsZip \/ is_windows \/ HasExecutableBit(entries[k].mode)

Positions == 1..Len(entries)

\* the least member of a non-empty set of positions
Least(S) == CHOOSE k \in S : \A j \in S : k <= j

WindowsSuffixes == {<<".","e","x","e">>, <<".","b","a","t">>}

\* name is stem followed by suffix, the stem portion compared without case
IsStemPlusSuffix(name, stem, suffix) ==
    /\ Len(name) = Len(stem) + Len(suffix)
    /\ ToLowercase(SubSeq(name, 1, Len(stem))) = ToLowercase(stem)
    /\ SubSeq(name, Len(stem) + 1, Len(name)) = suffix

\* the exact-match test as the specification words it
StatedExact(name) ==
    IF is_windows
    THEN \E x \in WindowsSuffixes : IsStemPlusSuffix(name, exe_file_stem, x)
    ELSE name = exe_file_stem

\* the code's exact-match test and the stated one agree on every entry
ExactnessUndisputed ==
    \A k \in Positions :
        ArchiveMemberIsExactMatch(self, BaseName(k)) <=> StatedExact(BaseName(k))

\* C1: when the archive holds a file entry that is an exact match, the entry
\* the matcher selects is the first exact match in stored order, whatever
\* partial matches are stored before or after it (tar and zip, both flags).
\* Stated for the archives on whose entries the code's exact-match test and
\* the stated one agree, so that only the selection order is in question.
C1_ExactMatchAlwaysWins ==
    (MatcherRan /\ ExactnessUndisputed /\ \E k \in Positions : ExactAt(k))
        => idx = Some(Least({k \in Positions : ExactAt(k)}) - 1)

\* C2: in a tarball, with is_windows = FALSE a file entry that is only a
\* partial match and has no executable bit is never the selected entry; with
\* is_windows = TRUE the selected index is the same for every other
\* assignment of mode bits to the entries.
C2_TarPartialEligibility ==
    (pc = "tar_matched" /\ IsTar) =>
        /\ (~is_windows /\ IsSome(idx)) =>
              ~ (/\ ~HasExecutableBit(entries[Unwrap(idx) + 1].mode)
                 /\ PartialAt(Unwrap(idx) + 1)
                 /\ ~ExactAt(Unwrap(idx) + 1))
        /\ is_windows =>
              \A m \in [Positions -> Modes] :
                 BestMatchFromTarball(self,
                     [k \in Positions |-> [entries[k] EXCEPT !.mode = m[k]]]) = idx

\* C2 witness: not Windows, a partial match without an executable bit stored
\* before a partial match with one, and the second is selected.
C2_Witness ==
    /\ IsTar /\ pc = "tar_matched" /\ ~is_windows
    /\ Len(entries) = 2
    /\ PartialAt(1) /\ ~ExactAt(1) /\ ~HasExecutableBit(entries[1].mode)
    /\ PartialAt(2) /\ ~ExactAt(2) /\ HasExecutableBit(entries[2].mode)
    /\ idx = Some(1)

\* C3: when no file entry is an exact match, the matcher selects the eligible
\* partial match with the lowest stored index (none when there is none), and
\* a selected entry is always a file entry.
C3_FirstPartialMatch ==
    MatcherRan =>
        /\ IsSome(idx) => entries[Unwrap(idx) + 1].is_file
        /\ (~ \E k \in Positions : ExactAt(k)) =>
              idx = IF \E k \in Positions : EligiblePartialAt(k)
                    THEN Some(Least({k \in Positions : EligiblePartialAt(k)}) - 1)
                    ELSE None

\* C3 witness: no exact match, two eligible partial matches, and the one
\* selected is the first although its name is the longer one.
C3_Witness ==
    /\ MatcherRan
    /\ Len(entries) = 2
    /\ ~ExactAt(1) /\ ~ExactAt(2)
    /\ EligiblePartialAt(1) /\ EligiblePartialAt(2)
    /\ Len(BaseName(1)) > Len(BaseName(2))
    /\ idx = Some(0)

\* C4: with is_windows = TRUE a base name is an exact match iff it is the
\* stem, compared case-insensitively, followed by .exe or .bat; with
\* is_windows = FALSE iff it equals the stem verbatim.
C4_ExactMatchTest ==
    MatcherRan =>
        \A k \in Positions :
            ArchiveMemberIsExactMatch(self, BaseName(k)) <=> StatedExact(BaseName(k))

\* the patterns the no-matching-entry error names
ExpectedPatterns ==
    IF is_windows
    THEN {exe_file_stem \o <<"*">> \o x : x \in WindowsSuffixes}
    ELSE {exe_file_stem \o <<"*">>}

NothingWritten == dirs = {} /\ files = {} /\ fs_log = <<>>

NoMatchInArchive ==
    /\ IsTar \/ IsZip
    /\ \A k \in Positions : ~ExactAt(k) /\ ~EligiblePartialAt(k)

\* C5: when a tar or zip asset holds neither an exact nor an eligible partial
\* match, the install fails, with the no-matching-entry error naming stem* (or
\* stem*<ext> for each Windows extension) once the asset could be opened, and
\* no directory has been created and no file written or made executable.
\* (Looked at in the states where the install has returned or the destination
\* side has changed; in the others the conclusion holds as it stands.)
C5_NoMatchLeavesDestinationUnchanged ==
    ((pc = "done" \/ ~NothingWritten) /\ NoMatchInArchive) =>
        /\ NothingWritten
        /\ pc = "done" =>
              /\ result.kind = "err"
              /\ result # Err("Io", <<"open">>) =>
                    /\ result.error = "NoMatchingEntry"
                    /\ Range(result.detail) = ExpectedPatterns
                    /\ Len(result.detail) = Cardinality(ExpectedPatterns)

\* C5 witness: a tarball whose only candidates are a matching directory and a
\* partial match without an executable bit; the install has failed.
C5_Witness ==
    /\ NoMatchInArchive /\ IsTar /\ ~is_windows
    /\ Len(entries) = 2
    /\ ~entries[1].is_file /\ BaseName(1) = exe_file_stem
    /\ PartialAt(2)
    /\ pc = "done" /\ result.error = "NoMatchingEntry"

----------------------------------------------------------------------------
(* Properties of the written destination *)

PreservedSuffixes == {<<".","A","p","p","I","m","a","g","e">>, <<".","b","a","t">>,
                      <<".","e","x","e">>, <<".","p","y","z">>}

\* a file name without its extension (the part before its last dot)
WithoutExtension(name) ==
    IF \E k \in 2..Len(name) : name[k] = "."
    THEN SubSeq(name, 1, (CHOOSE k \in 2..Len(name) :
                            name[k] = "." /\ \A j \in (k+1)..Len(name) : name[j] # ".") - 1)
    ELSE name

\* path p with the extension of its file name replaced by suffix
ExtensionReplaced(p, suffix) ==
    Path(p.abs, SubSeq(p.comps, 1, Len(p.comps) - 1)
                  \o <<WithoutExtension(p.comps[Len(p.comps)]) \o suffix>>)

\* the name of the matched entry (tar, zip) or of the copied asset
SourceName ==
    IF IsTar \/ IsZip THEN BaseName(Unwrap(idx) + 1)
    ELSE Unwrap(FileName(archive_path))

\* the asset is one whose bytes are copied as they are
IsCopied == ~IsTar /\ ~IsZip
            /\ ~(IsSome(Format) /\ Unwrap(Format) \in {"Bz", "Bz2", "Gz", "Xz"})

WrittenPaths == {f.path : f \in files}

\* C6: for tar, zip and copied assets, a source name ending in a preserved
\* extension (AppImage, bat, exe, pyz) is written to the destination with its
\* extension replaced by that one, whatever extension the caller's destination
\* had; any other source name is written to the destination path unchanged.
C6_PreservedExtensionRewrite ==
    (pc = "extracted" /\ (IsTar \/ IsZip \/ IsCopied)) =>
        IF \E x \in PreservedSuffixes : EndsWith(SourceName, x)
        THEN \A x \in PreservedSuffixes :
                EndsWith(SourceName, x) =>
                    WrittenPaths = {ExtensionReplaced(install_path, x)}
        ELSE WrittenPaths = {install_path}

\* C6 witness: a tarball entry named *.exe has been written to a destination
\* that the caller gave the extension .sh.
C6_Witness ==
    /\ pc = "extracted" /\ IsTar
    /\ EndsWith(SourceName, <<".","e","x","e">>)
    /\ install_path = Rel(<<n_bin, n_ubi_sh>>)
    /\ WrittenPaths = {Rel(<<n_bin, n_ubi_exe>>)}

\* the destination an install of this asset must end at
ExpectedDestination ==
    IF (IsTar \/ IsZip \/ IsCopied)
       /\ \E x \in PreservedSuffixes : EndsWith(SourceName, x)
    THEN ExtensionReplaced(install_path,
            CHOOSE x \in PreservedSuffixes : EndsWith(SourceName, x))
    ELSE install_path

\* C7: every successful single-file install ends with exactly one written
\* file, at the (possibly extension-rewritten) destination; on a unix-family
\* build that same path is the one set to mode 0o755, after the write; nothing
\* else is created under the destination's parent.
C7_OneExecutableFileOnSuccess ==
    (pc = "done" /\ result = Ok) =>
        LET d == ExpectedDestination
        IN  /\ WrittenPaths = {d}
            /\ Cardinality(files) = 1
            /\ dirs = Ancestors(Unwrap(Parent(d)))
            /\ fs_log = <<LogOp("create_dir_all", Unwrap(Parent(d))), LogOp("write", d)>>
                          \o (IF unix_family THEN <<LogOp("chmod", d)>> ELSE <<>>)
            /\ unix_family => \A f \in files : f.mode = 493

\* C7 witness: a successful install on a unix-family build whose written
\* path differs from the caller's destination and has mode 0o755.
C7_Witness ==
    /\ pc = "done" /\ result = Ok /\ unix_family
    /\ real_exe # Some(install_path) /\ real_exe # None
    /\ \E f \in files : f.path = Unwrap(real_exe) /\ f.mode = 493

----------------------------------------------------------------------------
(* ArchiveInstaller: inputs *)

n_X == <<"X">>
n_Y == <<"Y">>
n_tool == <<"t","o","o","l">>
n_README == <<"R","E","A","D","M","E">>
n_opt == <<"o","p","t">>

\* entries under a wrapper directory X (one of them named X itself), an
\* explicit entry for X, entries not under X, and a file at the archive's root
TreePool ==
    {Entry(Rel(<<n_X, n_bin, n_tool>>), TRUE, 493),
     Entry(Rel(<<n_X, n_README>>), TRUE, 420),
     Entry(Rel(<<n_X, n_X>>), TRUE, 493),
     Entry(Rel(<<n_X>>), FALSE, 493),
     Entry(Rel(<<n_bin, n_tool>>), TRUE, 493),
     Entry(Rel(<<n_Y, n_tool>>), TRUE, 493),
     Entry(Rel(<<n_README>>), TRUE, 420)}

TreeAssets ==
    {Asset(n, es) : n \in {a_tar, a_zip}, es \in SeqsUpTo(TreePool, MaxTreeEntries)}
      \cup {Asset(n, <<>>) : n \in {a_gz, a_bz2, a_xz, a_AppImage, a_bat, a_exe,
                                     a_pyz, a_dat, a_plain}}

InstallRoots == {Path(TRUE, <<n_opt, n_ubi>>)}

----------------------------------------------------------------------------
(* The tree under the install root: nodes [path, is_file], path being the    *)
(* sequence of components below the root                                     *)

Node(comps, is_file) == [path |-> comps, is_file |-> is_file]

\* what unpacking the entries leaves under the root: every entry and every
\* directory above one
TreeOf(ents) ==
    {Node(ents[k].path.comps, ents[k].is_file) : k \in 1..Len(ents)}
      \cup UNION {{Node(SubSeq(ents[k].path.comps, 1, j), FALSE) :
                     j \in 1..(Len(ents[k].path.comps) - 1)} : k \in 1..Len(ents)}

\* fs::read_dir: the immediate children of the directory at comps
Children(t, comps) ==
    {n \in t : Len(n.path) = Len(comps) + 1 /\ SubSeq(n.path, 1, Len(comps)) = comps}

\* the orders in which a directory listing may return a set of nodes
Listings(S) ==
    {l \in [1..Cardinality(S) -> S] : \A a, b \in 1..Cardinality(S) : l[a] = l[b] => a = b}

IsUnder(comps, prefix) ==
    Len(prefix) <= Len(comps) /\ SubSeq(comps, 1, Len(prefix)) = prefix

\* Path::strip_prefix, None when base is no prefix of p
StripPrefix(p, base) ==
    IF p.abs = base.abs /\ IsUnder(p.comps, base.comps)
    THEN Some(Rel(SubSeq(p.comps, Len(base.comps) + 1, Len(p.comps))))
    ELSE None

Decided(value) == [kind |-> "ok", value |-> value]
Undecided == [kind |-> "err", value |-> FALSE]

\* the loop of should_move_up_one_dir over a listing of the root, from its
\* k-th child on
RECURSIVE ShouldMoveScan(_, _, _, _)
ShouldMoveScan(root, listing, k, prefixes) ==
    IF k > Len(listing) THEN Decided(Cardinality(prefixes) = 1)
    ELSE LET full_path == Path(root.abs, root.comps \o listing[k].path)
             stripped == StripPrefix(full_path, root)
             path == IF IsSome(stripped) THEN Unwrap(stripped) ELSE full_path
         IN  IF listing[k].is_file /\ Parent(full_path) = Some(root)
             THEN Decided(FALSE)
             ELSE IF Len(path.comps) > 0 \/ path.abs
             THEN ShouldMoveScan(root, listing, k + 1,
                      prefixes \cup {IF path.abs THEN <<"/">> ELSE path.comps[1]})
             ELSE Undecided

\* mutant: the children are not tested for being regular files
ShouldMoveUpOneDirOver_CountsOnly(root, listing) ==
    Decided(Cardinality({listing[k].path[1] : k \in 1..Len(listing)}) = 1)

\* mutant: a root without children is reported as an entry without components
ShouldMoveUpOneDirOver_EmptyIsError(root, listing) ==
    IF Len(listing) = 0 THEN Undecided ELSE ShouldMoveScan(root, listing, 1, {})

ShouldMoveUpOneDirOver(root, listing) == ShouldMoveScan(root, listing, 1, {})

\* fs::rename fails when the target is a directory that is not empty, or is
\* a directory and the source is not, or the other way round
RenameCollides(t, src, dst) ==
    \E d \in t :
        /\ d.path = dst
        /\ \/ Children(t, dst) # {}
           \/ \E n \in t : n.path = src /\ n.is_file # d.is_file

\* fs::rename: the source and everything under it now at the target
Renamed(t, src, dst) ==
    {n \in t : ~IsUnder(n.path, src) /\ n.path # dst}
      \cup {Node(dst \o SubSeq(n.path, Len(src) + 1, Len(n.path)), n.is_file) :
              n \in {m \in t : IsUnder(m.path, src)}}

----------------------------------------------------------------------------
(* ArchiveInstaller::install *)

ArchUnchanged == UNCHANGED <<exeVars, archive_path, entries, install_root>>

\* extract_entire_archive on a tar-family asset: extract_entire_tarball
ExtractEntireTarball ==
    /\ pc = "start"
    /\ IsSome(Format) /\ Unwrap(Format) \in TarFamily
    /\ \E fault \in {"none", "open", "unpack"} :
         IF fault = "open"
         THEN /\ Finish(Err("Io", <<"open">>))
              /\ UNCHANGED <<root_exists, tree>>
         ELSE IF fault = "unpack"
         THEN /\ Finish(Err("Io", <<"unpack">>))
              /\ root_exists' = TRUE
              /\ \E n \in 0..Len(entries) : tree' = TreeOf(SubSeq(entries, 1, n))
         ELSE /\ root_exists' = TRUE
              /\ tree' = TreeOf(entries)
              /\ pc' = "extracted"
              /\ UNCHANGED result
    /\ UNCHANGED <<top_level_path, pending>>
    /\ ArchUnchanged

\* extract_entire_archive on a zip asset: extract_entire_zip; whether
\* extracting an archive without entries makes the root is the library's choice
ExtractEntireZip ==
    /\ pc = "start"
    /\ Format = Some("Zip")
    /\ \E fault \in {"none", "open", "extract"} :
         IF fault = "open"
         THEN /\ Finish(Err("Io", <<"open">>))
              /\ UNCHANGED <<root_exists, tree>>
         ELSE IF fault = "extract"
         THEN /\ Finish(Err("Io", <<"extract">>))
              /\ \E n \in 0..Len(entries) :
                   /\ tree' = TreeOf(SubSeq(entries, 1, n))
                   /\ root_exists' \in (IF n > 0 THEN {TRUE} ELSE BOOLEAN)
         ELSE /\ root_exists' \in (IF Len(entries) > 0 THEN {TRUE} ELSE BOOLEAN)
              /\ tree' = TreeOf(entries)
              /\ pc' = "extracted"
              /\ UNCHANGED result
    /\ UNCHANGED <<top_level_path, pending>>
    /\ ArchUnchanged

\* extract_entire_archive on any other asset
NotAnArchive ==
    /\ pc = "start"
    /\ ~(IsSome(Format) /\ Unwrap(Format) \in TarFamily \cup {"Zip"})
    /\ Finish(Err("NotAnArchive", <<>>))
    /\ UNCHANGED <<root_exists, tree, top_level_path, pending>>
    /\ ArchUnchanged

\* should_move_up_one_dir and the branch of extract_entire_archive on it
ShouldMoveUpOneDir ==
    /\ pc = "extracted"
    /\ \E read_ok \in BOOLEAN :
         IF ~read_ok \/ ~root_exists
         THEN Finish(Err("Io", <<"read_dir">>))
         ELSE \E listing \in Listings(Children(tree, <<>>)) :
                LET r == ShouldMoveUpOneDirOver(install_root, listing)
                IN  IF r.kind = "err"
                    THEN Finish(Err("EmptyArchive", <<>>))
                    ELSE IF r.value
                    THEN pc' = "moving" /\ UNCHANGED result
                    ELSE Finish(Ok)
    /\ UNCHANGED <<root_exists, tree, top_level_path, pending>>
    /\ ArchUnchanged

\* move_contents_up_one_dir: the first entry of a listing of the root becomes
\* top_level_path, and its directory is opened
MoveOpen ==
    /\ pc = "moving"
    /\ \E read_ok \in BOOLEAN :
         IF ~read_ok
         THEN /\ Finish(Err("Io", <<"read_dir">>))
              /\ UNCHANGED <<top_level_path, pending>>
         ELSE IF Children(tree, <<>>) = {}
         THEN /\ Finish(Err("NoDirectoryFound", <<>>))
              /\ UNCHANGED <<top_level_path, pending>>
         ELSE \E listing \in Listings(Children(tree, <<>>)) :
                IF listing[1].is_file
                THEN /\ Finish(Err("Io", <<"read_dir">>))
                     /\ UNCHANGED <<top_level_path, pending>>
                ELSE /\ top_level_path' = Some(listing[1].path)
                     /\ pending' = {n.path[Len(n.path)] :
                                      n \in Children(tree, listing[1].path)}
                     /\ pc' = "renaming"
                     /\ UNCHANGED result
    /\ UNCHANGED <<root_exists, tree>>
    /\ ArchUnchanged

\* move_contents_up_one_dir: one turn of the loop, the rename of one entry
MoveRename ==
    /\ pc = "renaming"
    /\ pending # {}
    /\ \E name \in pending, rename_ok \in BOOLEAN :
         LET src == Append(Unwrap(top_level_path), name)
             target == <<name>>
         IN  IF ~rename_ok
             THEN /\ Finish(Err("Io", <<"rename">>))
                  /\ UNCHANGED <<tree, pending>>
             ELSE IF RenameCollides(tree, src, target)
             THEN /\ Finish(Err("Io", <<"rename", "target exists">>))
                  /\ UNCHANGED <<tree, pending>>
             ELSE /\ tree' = Renamed(tree, src, target)
                  /\ pending' = pending \ {name}
                  /\ UNCHANGED <<pc, result>>
    /\ UNCHANGED <<root_exists, top_level_path>>
    /\ ArchUnchanged

\* move_contents_up_one_dir: the loop is over, remove_dir(top_level_path)
MoveRemoveDir ==
    /\ pc = "renaming"
    /\ pending = {}
    /\ \E remove_ok \in BOOLEAN :
         IF ~remove_ok
         THEN /\ Finish(Err("Io", <<"remove_dir">>))
              /\ UNCHANGED tree
         ELSE IF Children(tree, Unwrap(top_level_path)) # {}
         THEN /\ Finish(Err("Io", <<"remove_dir", "not empty">>))
              /\ UNCHANGED tree
         ELSE /\ tree' = {n \in tree : n.path # Unwrap(top_level_path)}
              /\ Finish(Ok)
    /\ UNCHANGED <<root_exists, top_level_path, pending>>
    /\ ArchUnchanged

ArchiveInit ==
    /\ install_root \in InstallRoots
    /\ \E a \in TreeAssets :
         /\ archive_path = Rel(<<a.name>>)
         /\ entries = a.ents
    /\ pc = "start"
    /\ result = Pending
    /\ root_exists = FALSE
    /\ tree = {}
    /\ top_level_path = None
    /\ pending = {}
    /\ install_path = Rel(<<>>)
    /\ exe_file_stem = <<>>
    /\ is_windows = FALSE
    /\ unix_family = FALSE
    /\ idx = None
    /\ real_exe = None
    /\ dirs = {}
    /\ files = {}
    /\ fs_log = <<>>

ArchiveNext ==
    \/ ExtractEntireTarball
    \/ ExtractEntireZip
    \/ NotAnArchive
    \/ ShouldMoveUpOneDir
    \/ MoveOpen
    \/ MoveRename
    \/ MoveRemoveDir

ArchiveSpec == ArchiveInit /\ [][ArchiveNext]_vars

----------------------------------------------------------------------------
(* Properties of the whole-archive install *)

IsArchiveAsset == IsTar \/ IsZip

\* a failure of the environment (open, read, unpack, rename, remove) that
\* the archive's contents did not cause
EnvironmentFault(r) == r.kind = "err" /\ r.error = "Io" /\ Len(r.detail) = 1

\* every entry of the archive lies under one single top-level directory
AllUnderOneDirectory ==
    /\ Len(entries) > 0
    /\ \E x \in {entries[k].path.comps[1] : k \in Positions} :
         \A k \in Positions :
            /\ entries[k].path.comps[1] = x
            /\ Len(entries[k].path.comps) > 1 \/ ~entries[k].is_file

\* the extracted tree with the first component of every path dropped
Flattened(t) == {Node(Tail(n.path), n.is_file) : n \in {m \in t : Len(m.path) > 1}}

\* C8: an archive all of whose entries lie under one top-level directory X,
\* installed into an empty root, installs successfully, with every entry X/p
\* at root/p and no root/X left, whatever the names of the entries inside X.
C8_SingleTopLevelDirectoryIsFlattened ==
    (IsArchiveAsset /\ AllUnderOneDirectory /\ pc = "done"
       /\ ~EnvironmentFault(result))
        => /\ result = Ok
           /\ tree = Flattened(TreeOf(entries))

HasTopLevelFile(t) == \E n \in t : Len(n.path) = 1 /\ n.is_file

\* C9: if after extraction an immediate child of the install root is a
\* regular file, no flattening happens, every entry stays where it was
\* extracted and the install succeeds, in whatever order the directory
\* listing returns the children.
C9_TopLevelFilePreventsFlattening ==
    (IsArchiveAsset /\ HasTopLevelFile(TreeOf(entries))
       /\ pc \notin {"start", "extracted"})
        => /\ pc = "done"
           /\ top_level_path = None
           /\ ~EnvironmentFault(result) =>
                 /\ result = Ok
                 /\ tree = TreeOf(entries)

\* C9 witness: bin/tool and a README at the archive's root, installed.
C9_Witness ==
    /\ IsArchiveAsset /\ pc = "done" /\ result = Ok
    /\ Len(entries) = 2
    /\ tree = {Node(<<n_bin>>, FALSE), Node(<<n_bin, n_tool>>, TRUE),
               Node(<<n_README>>, TRUE)}

\* the heuristic ran to its end over an install root without children
HeuristicFoundNothing ==
    /\ IsArchiveAsset /\ pc = "done"
    /\ root_exists /\ TreeOf(entries) = {}
    /\ ~EnvironmentFault(result)

\* C10 as stated: when the heuristic finds no regular file among the children
\* of the install root and the set of first components is empty, the install
\* fails with the empty-archive error.
C10_EmptySetFails ==
    HeuristicFoundNothing => result.kind = "err" /\ result.error = "EmptyArchive"

\* C10 as amended: in that case no flattening happens and the install
\* returns success; it does not fail with the empty-archive error.
C10_EmptySetSucceeds ==
    HeuristicFoundNothing => result = Ok /\ tree = {} /\ top_level_path = None

\* C10 witness: a tarball without entries has been installed.
C10_Witness ==
    /\ HeuristicFoundNothing /\ IsTar
    /\ Len(entries) = 0
    /\ result = Ok

\* the formats the whole-archive install is stated to accept
AcceptedFormats ==
    {"Tar", "TarBz", "TarBz2", "TarGz", "TarXz", "Tbz", "Tgz", "Txz", "Zip"}

IsOtherFormat == ~(IsSome(Format) /\ Unwrap(Format) \in AcceptedFormats)

\* C11: for an asset of any format other than tar-family and zip the
\* whole-archive install fails with the not-an-archive error; neither the
\* extraction nor the flattening step runs and the install root is unchanged.
C11_OnlyArchivesAccepted ==
    IsOtherFormat =>
        /\ pc \in {"start", "done"}
        /\ pc = "done" => result = Err("NotAnArchive", <<>>)
        /\ ~root_exists /\ tree = {}
        /\ top_level_path = None /\ pending = {}

\* C11 witness: the install of a bare gzip asset has failed.
C11_Witness ==
    /\ archive_path = Rel(<<a_gz>>)
    /\ IsOtherFormat
    /\ pc = "done" /\ result = Err("NotAnArchive", <<>>)

----------------------------------------------------------------------------
(* Properties of the single-file install: the install directory *)

\* every write in the log comes after a create_dir_all of the written path's
\* parent
DirectoryCreatedBeforeWrite ==
    \A k \in 1..Len(fs_log) :
        fs_log[k].op = "write" =>
            \E j \in 1..(k - 1) :
                /\ fs_log[j].op = "create_dir_all"
                /\ Some(fs_log[j].path) = Parent(fs_log[k].path)

\* the install ended before it reached create_install_dir
FailedBeforeCreateInstallDir ==
    /\ result.kind = "err"
    /\ \/ result.error = "NoMatchingEntry"
       \/ result.error = "Io" /\ result.detail \in {<<"open">>, <<"read">>}

\* the destination is the root: Path::parent gives None
HasNoParent == Len(install_path.comps) = 0

\* the destination is a bare file name: Path::parent gives the empty path
IsBareFileName == ~install_path.abs /\ Len(install_path.comps) = 1

\* C12 as stated: the parent directory is created before the first write, and
\* a destination without a parent component, a bare file name included, makes
\* the install fail with the install-directory error, nothing written.
C12_NoParentComponentFails ==
    /\ DirectoryCreatedBeforeWrite
    /\ (HasNoParent \/ IsBareFileName) =>
          /\ NothingWritten
          /\ (pc = "done" /\ ~FailedBeforeCreateInstallDir) =>
                result = Err("InstallDirectory", <<>>)

\* C12 as amended: the parent directory is created before the first write; a
\* destination for which Path::parent gives None (the root) makes the install
\* fail with the install-directory error once create_install_dir is reached,
\* nothing written; a bare file name has the empty path for its parent and
\* never fails with that error.
C12_NoParentFails ==
    /\ DirectoryCreatedBeforeWrite
    /\ HasNoParent =>
          /\ NothingWritten
          /\ (pc = "done" /\ ~FailedBeforeCreateInstallDir) =>
                result = Err("InstallDirectory", <<>>)
    /\ IsBareFileName => result # Err("InstallDirectory", <<>>)

\* C12 witness: the install of a gzip asset to the root has failed with the
\* install-directory error.
C12_Witness ==
    /\ HasNoParent /\ Format = Some("Gz")
    /\ pc = "done" /\ result = Err("InstallDirectory", <<>>)
    /\ NothingWritten

----------------------------------------------------------------------------
(* Properties of the single-file install: failures *)

\* C13: every failure inside an install reaches the caller as an error result
\* of install: an install that has ended has returned, with an error or with
\* success, and it reports success only with the file written; no failing
\* step, the unpacking of the selected tar entry included, aborts the program.
C13_EveryFailureIsReturned ==
    /\ result.kind # "panic"
    /\ pc = "done" => result.kind \in {"ok", "err"}
    /\ result = Ok => Exists(files, RealExe(self, real_exe))

----------------------------------------------------------------------------
(* Properties of the single-file install: bare compressors *)

BareCompressors == {"Bz", "Bz2", "Gz", "Xz"}

IsBareCompressor == IsSome(Format) /\ Unwrap(Format) \in BareCompressors

\* the decompressed stream, at the caller's destination path, with a mode
StreamAtDestination(mode) == {FileRec(install_path, Content("stream", 0), mode)}

\* C14: for a bare compressor asset (.bz, .bz2, .gz, .xz) the entry matcher is
\* never invoked and no no-matching-entry error occurs; the whole decompressed
\* stream is written to the caller's destination path as supplied, whatever
\* the stem, and that path is then made executable (mode 0o755 on a build for
\* the unix family, where files have modes).
C14_BareCompressorBypassesMatcher ==
    IsBareCompressor =>
        /\ pc \in {"start", "extracted", "done"}
        /\ idx = None
        /\ ~(result.kind = "err" /\ result.error = "NoMatchingEntry")
        /\ real_exe = None
        /\ files \in {{}} \cup {StreamAtDestination(m) : m \in Modes}
        /\ pc = "extracted" => files = StreamAtDestination(DefaultFileMode)
        /\ (pc = "done" /\ result = Ok) =>
              files = StreamAtDestination(IF unix_family THEN ExecutableMode
                                          ELSE DefaultFileMode)

\* C14 witness: a bzip2 asset installed to bin/ubi.sh for the stem Ubi: the
\* destination keeps its name and is executable.
C14_Witness ==
    /\ Format = Some("Bz2") /\ exe_file_stem = n_Ubi
    /\ install_path = Rel(<<n_bin, n_ubi_sh>>)
    /\ unix_family /\ pc = "done" /\ result = Ok
    /\ files = StreamAtDestination(ExecutableMode)

----------------------------------------------------------------------------
(* Properties of the single-file install: the two passes over a tarball *)

\* C15: the first pass over a tarball ends, with its index, before the second
\* reader is opened and before anything is written; the entry the second pass
\* unpacks is the entry at that index, every entry counted, file or not, so
\* it is the entry the matcher selected; the no-matching-entry error is
\* returned only when the first pass gave no index.
C15_SecondPassUnpacksSelectedEntry ==
    /\ pc = "tar_matched" => IsTar /\ NothingWritten /\ result = Pending
    /\ (result.kind = "err" /\ result.error = "NoMatchingEntry" /\ IsTar)
          => idx = None
    /\ (pc = "extracted" /\ IsTar) =>
          /\ IsSome(idx)
          /\ Unwrap(idx) + 1 \in Positions
          /\ ExactAt(Unwrap(idx) + 1) \/ EligiblePartialAt(Unwrap(idx) + 1)
          /\ files = {FileRec(ExpectedDestination, Content("entry", Unwrap(idx)),
                              entries[Unwrap(idx) + 1].mode)}

\* C15 witness: the selected entry bin/ubi comes after a directory entry and
\* has been unpacked.
C15_Witness ==
    /\ IsTar /\ pc = "extracted"
    /\ Len(entries) = 2
    /\ ~entries[1].is_file
    /\ entries[2] = Entry(Rel(<<n_bin, n_ubi>>), TRUE, 493)
    /\ idx = Some(1)
    /\ files = {FileRec(install_path, Content("entry", 1), 493)}

=============================================================================
